---------------------------- MODULE Spec2Model ----------------------------
(***************************************************************************)
(* Prompt Nexus frontend: the prompt library (list) component, the prompt  *)
(* detail component, the add-prompt form, the login component, the navbar  *)
(* and the complexity-to-color pipe.                                       *)
(*                                                                         *)
(* Texts are sequences of one-character strings, so that toLowerCase,      *)
(* trim, includes, Number.toString, toFixed and the date parser are        *)
(* computed character by character.  JavaScript values are records         *)
(* [t, n, s]: t is the type tag, n the number, s the text.                 *)
(***************************************************************************)
EXTENDS Integers, Sequences, FiniteSets, TLC

VARIABLES
    route,            \* the activated route: [path, id], path "dashboard", "detail",
                      \* "add" or "login"
    navTarget,        \* the route of a router.navigate call the router has not
                      \* activated yet (NoNav = none)
    localStorage,     \* the items authToken and user (Null = absent)
    prompts,          \* PromptLibraryComponent.prompts
    filteredPrompts,  \* PromptLibraryComponent.filteredPrompts
    searchTerm,       \* PromptLibraryComponent.searchTerm (ngModel)
    listReq,          \* the GET /api/prompts/ request: "none", "pending", "done", "failed"
    listData,         \* the records of the response the next callback received
    prompt,           \* PromptDetailComponent.prompt (NoPrompt = null)
    routeId,          \* PromptDetailComponent.routeId
    error,            \* PromptDetailComponent.error
    isLoading,        \* PromptDetailComponent.isLoading
    detailReq,        \* the GET /api/prompts/{id}/ request: "none", "pending",
                      \* "responded", "completed", "failed"
    promptForm,       \* AddPromptComponent.promptForm: the values of its controls
                      \* (NoForm before ngOnInit)
    posts,            \* pending POST /api/prompts/create/ requests
    loginForm,        \* LoginComponent.loginForm: the values of its controls
    Login_isLoading,  \* LoginComponent.isLoading
    Login_error,      \* LoginComponent.error
    loginInit,        \* LoginComponent.ngOnInit has run
    loginReqs,        \* pending POST /api/auth/login/ requests
    timers,           \* pending setTimeout callbacks of handleSuccessfulLogin
    staleTimers,      \* such callbacks of LoginComponent instances no longer displayed
    call              \* the last handler or function call: [op, arg, now, res]; the arg
                      \* of savePrompt is the body it posted (NoBody if none)

vars == <<route, navTarget, localStorage, prompts, filteredPrompts, searchTerm, listReq,
          listData, prompt, routeId, error, isLoading, detailReq, promptForm, posts,
          loginForm, Login_isLoading, Login_error, loginInit, loginReqs, timers,
          staleTimers, call>>

-----------------------------------------------------------------------------
(* Bounds of the model *)

MaxList == 2          \* records in one list response
MaxViews == 1300      \* view counts 0..MaxViews are formatted, plus BigViews
MaxNegViews == 3      \* negative view counts -MaxNegViews..-1
MaxLevel == 12        \* complexity levels -MaxNegLevel..MaxLevel
MaxNegLevel == 3
MaxDay == 4           \* "now" ranges over the first MaxDay days of the epoch
MaxPosts == 1         \* pending POST requests of one component
MaxTimers == 1        \* pending setTimeout callbacks

-----------------------------------------------------------------------------
(* JavaScript values *)

Undefined == [t |-> "undefined", n |-> 0, s |-> <<>>]
Null == [t |-> "null", n |-> 0, s |-> <<>>]
Num(k) == [t |-> "number", n |-> k, s |-> <<>>]
NaN == [t |-> "NaN", n |-> 0, s |-> <<>>]
Str(txt) == [t |-> "string", n |-> 0, s |-> txt]

IsText(v) == v.t = "string"
IsNum(v) == v.t = "number"

\* ToBoolean: undefined, null, NaN, 0 and "" are falsy
Truthy(v) ==
    CASE v.t = "undefined" -> FALSE
      [] v.t = "null" -> FALSE
      [] v.t = "NaN" -> FALSE
      [] v.t = "number" -> v.n # 0
      [] v.t = "string" -> v.s # <<>>

\* a || b
OrElse(a, b) == IF Truthy(a) THEN a ELSE b

\* the completion of a call: a returned value, or a TypeError
Return(v) == [threw |-> FALSE, val |-> v]
Throw == [threw |-> TRUE, val |-> Undefined]

-----------------------------------------------------------------------------
(* Text *)

UpperChars == <<"A","B","C","D","E","F","G","H","I","J","K","L","M",
                "N","O","P","Q","R","S","T","U","V","W","X","Y","Z">>
LowerChars == <<"a","b","c","d","e","f","g","h","i","j","k","l","m",
                "n","o","p","q","r","s","t","u","v","w","x","y","z">>
DigitChars == <<"0","1","2","3","4","5","6","7","8","9">>
WhiteSpace == {" ", "\t", "\n"}

toLowerCaseChar(c) ==
    IF \E i \in 1..Len(UpperChars) : UpperChars[i] = c
    THEN LowerChars[CHOOSE i \in 1..Len(UpperChars) : UpperChars[i] = c]
    ELSE c

\* String.prototype.toLowerCase
toLowerCase(txt) == [i \in 1..Len(txt) |-> toLowerCaseChar(txt[i])]

\* String.prototype.trim
RECURSIVE trimStart(_)
trimStart(txt) ==
    IF txt # <<>> /\ Head(txt) \in WhiteSpace THEN trimStart(Tail(txt)) ELSE txt

RECURSIVE trimEnd(_)
trimEnd(txt) ==
    IF txt # <<>> /\ txt[Len(txt)] \in WhiteSpace
    THEN trimEnd(SubSeq(txt, 1, Len(txt) - 1))
    ELSE txt

trim(txt) == trimEnd(trimStart(txt))

\* String.prototype.includes
includes(txt, term) ==
    \E i \in 0..(Len(txt) - Len(term)) : SubSeq(txt, i + 1, i + Len(term)) = term

DigitChar(d) == DigitChars[d + 1]

\* Number.prototype.toString of an integer
RECURSIVE NatToString(_)
NatToString(k) ==
    IF k < 10 THEN <<DigitChar(k)>>
    ELSE NatToString(k \div 10) \o <<DigitChar(k % 10)>>

NumberToString(k) == IF k < 0 THEN <<"-">> \o NatToString(-k) ELSE NatToString(k)


IsDigit(c) == \E d \in 0..9 : DigitChars[d + 1] = c
DigitVal(c) == CHOOSE d \in 0..9 : DigitChars[d + 1] = c

-----------------------------------------------------------------------------
(* Numbers: comparison, division by 1000 and toFixed(1) *)

\* v >= k and v <= k for a number k: undefined converts to NaN, which compares
\* false with everything; null converts to 0.  (Texts are never compared.)
Ge(v, k) ==
    CASE v.t = "number" -> v.n >= k
      [] v.t = "null" -> 0 >= k
      [] OTHER -> FALSE

Le(v, k) ==
    CASE v.t = "number" -> v.n <= k
      [] v.t = "null" -> 0 <= k
      [] OTHER -> FALSE

RECURSIVE BitLen(_)
BitLen(q) == IF q = 0 THEN 0 ELSE 1 + BitLen(q \div 2)

\* the remainder of k/1000 left after `steps` further binary digits
RECURSIVE RemAfter(_, _)
RemAfter(r, steps) == IF steps = 0 THEN r ELSE RemAfter((2 * r) % 1000, steps - 1)

\* k / 1000 for an integer k >= 1000 is the IEEE double nearest to the
\* quotient: its 53-bit significand holds the BitLen(k \div 1000) integer bits
\* and 53 - BitLen fraction bits, rounded to nearest, ties to even.  err is the
\* sign of (double - exact quotient).
DivideBy1000(k) ==
    LET q == k \div 1000
        steps == 53 - BitLen(q)
        rem == RemAfter(k % 1000, steps)
        lastBit == IF steps = 0 THEN q % 2
                   ELSE IF 2 * RemAfter(k % 1000, steps - 1) >= 1000 THEN 1 ELSE 0
    IN  [k |-> k,
         err |-> IF rem = 0 THEN 0
                 ELSE IF 2 * rem > 1000 THEN 1
                 ELSE IF 2 * rem < 1000 THEN -1
                 ELSE IF lastBit = 1 THEN 1 ELSE -1]

\* Number.prototype.toFixed(1) of x = DivideBy1000(k): the integer n for which
\* n/10 - x is closest to zero, the larger n when two are equally close,
\* printed with one fraction digit.
toFixed1(x) ==
    LET lo == x.k \div 100
        n == IF x.k % 100 < 50 THEN lo
             ELSE IF x.k % 100 > 50 THEN lo + 1
             ELSE IF x.err < 0 THEN lo ELSE lo + 1
    IN  NatToString(n \div 10) \o <<".">> \o <<DigitChar(n % 10)>>

-----------------------------------------------------------------------------
(* Dates *)

MsPerDay == 1000 * 60 * 60 * 24

IsLeap(y) == (y % 4 = 0 /\ y % 100 # 0) \/ y % 400 = 0
DaysInMonth(y, m) ==
    IF m = 2 THEN (IF IsLeap(y) THEN 29 ELSE 28)
    ELSE IF m \in {4, 6, 9, 11} THEN 30 ELSE 31

RECURSIVE DaysBeforeMonth(_, _)
DaysBeforeMonth(y, m) ==
    IF m = 1 THEN 0 ELSE DaysBeforeMonth(y, m - 1) + DaysInMonth(y, m - 1)

LeapsBefore(y) == ((y - 1) \div 4) - ((y - 1) \div 100) + ((y - 1) \div 400)

EpochDay(y, m, d) ==
    365 * (y - 1970) + (LeapsBefore(y) - LeapsBefore(1970)) + DaysBeforeMonth(y, m) + (d - 1)

InvalidDate == [valid |-> FALSE, time |-> 0, y |-> 0, m |-> 0, d |-> 0]

\* Date.parse of a date-only ISO text YYYY-MM-DD (read as UTC midnight); any
\* other text of the model's inputs is not a date.
ParseDate(txt) ==
    IF /\ Len(txt) = 10
       /\ txt[5] = "-" /\ txt[8] = "-"
       /\ \A i \in {1, 2, 3, 4, 6, 7, 9, 10} : IsDigit(txt[i])
    THEN LET y == 1000 * DigitVal(txt[1]) + 100 * DigitVal(txt[2])
                  + 10 * DigitVal(txt[3]) + DigitVal(txt[4])
             m == 10 * DigitVal(txt[6]) + DigitVal(txt[7])
             d == 10 * DigitVal(txt[9]) + DigitVal(txt[10])
         IN  IF m \in 1..12 /\ d >= 1 /\ d <= DaysInMonth(y, m)
             THEN [valid |-> TRUE, time |-> EpochDay(y, m, d) * MsPerDay,
                   y |-> y, m |-> m, d |-> d]
             ELSE InvalidDate
    ELSE InvalidDate

\* new Date(v): a text is parsed, undefined is an invalid date, null is time 0
NewDate(v) ==
    CASE v.t = "string" -> ParseDate(v.s)
      [] v.t = "null" -> [valid |-> TRUE, time |-> 0, y |-> 1970, m |-> 1, d |-> 1]
      [] OTHER -> InvalidDate

MonthAbbr == << <<"J","a","n">>, <<"F","e","b">>, <<"M","a","r">>, <<"A","p","r">>,
                <<"M","a","y">>, <<"J","u","n">>, <<"J","u","l">>, <<"A","u","g">>,
                <<"S","e","p">>, <<"O","c","t">>, <<"N","o","v">>, <<"D","e","c">> >>

TxtInvalidDate == <<"I","n","v","a","l","i","d"," ","D","a","t","e">>

\* toLocaleDateString('en-US', {year: 'numeric', month: 'short', day: 'numeric'})
toLocaleDateStringShort(date) ==
    IF ~date.valid THEN TxtInvalidDate
    ELSE MonthAbbr[date.m] \o <<" ">> \o NatToString(date.d) \o <<",", " ">>
         \o NatToString(date.y)

\* toLocaleDateString() in the en-US locale
toLocaleDateString(date) ==
    IF ~date.valid THEN TxtInvalidDate
    ELSE NatToString(date.m) \o <<"/">> \o NatToString(date.d) \o <<"/">>
         \o NatToString(date.y)

-----------------------------------------------------------------------------
(* Texts of the program *)

TxtSimple == <<"S","i","m","p","l","e">>
TxtModerate == <<"M","o","d","e","r","a","t","e">>
TxtComplex == <<"C","o","m","p","l","e","x">>
TxtUnknown == <<"U","n","k","n","o","w","n">>
TxtK == <<"k">>
TxtSimpleLower == <<"s","i","m","p","l","e">>
TxtModerateLower == <<"m","o","d","e","r","a","t","e">>
TxtComplexLower == <<"c","o","m","p","l","e","x">>

ColorSimple == <<"#","D","0","E","B","F","F">>
ColorModerate == <<"#","F","F","F","7","C","3">>
ColorComplex == <<"#","F","F","E","5","E","5">>
ColorDefault == <<"#","f","5","f","5","f","5">>

-----------------------------------------------------------------------------
(* Presentation functions.  Each takes JavaScript values and gives a        *)
(* completion: Return(value) or Throw (a TypeError).                        *)

\* a variant of getComplexityText without the lower bound and the Unknown bucket
getComplexityText_NoUnknown(level) ==
    IF Le(level, 3) THEN Return(Str(TxtSimple))
    ELSE IF Le(level, 7) THEN Return(Str(TxtModerate))
    ELSE Return(Str(TxtComplex))

\* PromptLibraryComponent.getComplexityText
getComplexityText(level) ==
    IF Ge(level, 1) /\ Le(level, 3) THEN Return(Str(TxtSimple))
    ELSE IF Ge(level, 4) /\ Le(level, 7) THEN Return(Str(TxtModerate))
    ELSE IF Ge(level, 8) /\ Le(level, 10) THEN Return(Str(TxtComplex))
    ELSE Return(Str(TxtUnknown))

\* PromptDetailComponent.getComplexityText
Detail_getComplexityText(level) ==
    IF Le(level, 3) THEN Return(Str(TxtSimple))
    ELSE IF Le(level, 7) THEN Return(Str(TxtModerate))
    ELSE Return(Str(TxtComplex))

\* a variant of transform that matches without toLowerCase
transform_CaseSensitive(complexity) ==
    IF ~IsText(complexity) THEN Throw
    ELSE IF complexity.s = TxtSimpleLower THEN Return(Str(ColorSimple))
    ELSE IF complexity.s = TxtModerateLower THEN Return(Str(ColorModerate))
    ELSE IF complexity.s = TxtComplexLower THEN Return(Str(ColorComplex))
    ELSE Return(Str(ColorDefault))

\* ComplexityToColorPipe.transform: complexity.toLowerCase() is a TypeError
\* when complexity is not a text
transform(complexity) ==
    IF ~IsText(complexity) THEN Throw
    ELSE LET lower == toLowerCase(complexity.s)
         IN  IF lower = TxtSimpleLower THEN Return(Str(ColorSimple))
             ELSE IF lower = TxtModerateLower THEN Return(Str(ColorModerate))
             ELSE IF lower = TxtComplexLower THEN Return(Str(ColorComplex))
             ELSE Return(Str(ColorDefault))

\* views.toString(): a TypeError on undefined and null
valueToString(v) ==
    CASE v.t = "number" -> Return(Str(NumberToString(v.n)))
      [] v.t = "string" -> Return(v)
      [] OTHER -> Throw

\* a variant of formatViews that compares with > instead of >=
formatViews_StrictThreshold(views) ==
    IF Ge(views, 1001)
    THEN Return(Str(toFixed1(DivideBy1000(views.n)) \o TxtK))
    ELSE valueToString(views)

\* PromptLibraryComponent.formatViews
formatViews(views) ==
    IF Ge(views, 1000)
    THEN Return(Str(toFixed1(DivideBy1000(views.n)) \o TxtK))
    ELSE valueToString(views)

\* PromptDetailComponent.formatViews
Detail_formatViews(views) ==
    IF Ge(views, 1000)
    THEN Return(Str(toFixed1(DivideBy1000(views.n)) \o TxtK))
    ELSE valueToString(views)

\* a variant of getDaysAgo that rounds to the nearest day instead of Math.floor
getDaysAgo_Round(dateString, now) ==
    IF ~Truthy(dateString) THEN Return(Num(0))
    ELSE LET created == NewDate(dateString)
         IN  IF ~created.valid THEN Return(Num(0))
             ELSE Return(Num((2 * (now - created.time) + MsPerDay) \div (2 * MsPerDay)))

\* PromptDetailComponent.getDaysAgo, with the clock reading `now` (ms)
getDaysAgo(dateString, now) ==
    IF ~Truthy(dateString) THEN Return(Num(0))
    ELSE LET created == NewDate(dateString)
         IN  IF ~created.valid THEN Return(Num(0))
             ELSE Return(Num((now - created.time) \div MsPerDay))

\* a variant of getComplexityClass with the bounds and the Unknown bucket of
\* the list view's getComplexityText
getComplexityClass_WithUnknown(level) ==
    IF Ge(level, 1) /\ Le(level, 3) THEN Return(Str(TxtSimpleLower))
    ELSE IF Ge(level, 4) /\ Le(level, 7) THEN Return(Str(TxtModerateLower))
    ELSE IF Ge(level, 8) /\ Le(level, 10) THEN Return(Str(TxtComplexLower))
    ELSE Return(Str(toLowerCase(TxtUnknown)))

\* PromptDetailComponent.getComplexityClass
getComplexityClass(level) ==
    IF Le(level, 3) THEN Return(Str(TxtSimpleLower))
    ELSE IF Le(level, 7) THEN Return(Str(TxtModerateLower))
    ELSE Return(Str(TxtComplexLower))

\* AddPromptComponent.getComplexityClass, on the value of the form's
\* complexity control
Add_getComplexityClass(value) ==
    IF ~Truthy(value) THEN Return(Str(TxtSimpleLower))
    ELSE IF Le(value, 3) THEN Return(Str(TxtSimpleLower))
    ELSE IF Le(value, 7) THEN Return(Str(TxtModerateLower))
    ELSE Return(Str(TxtComplexLower))

\* AddPromptComponent.getComplexityText
Add_getComplexityText(value) ==
    IF ~Truthy(value) THEN Return(Str(TxtSimple))
    ELSE IF Le(value, 3) THEN Return(Str(TxtSimple))
    ELSE IF Le(value, 7) THEN Return(Str(TxtModerate))
    ELSE Return(Str(TxtComplex))

-----------------------------------------------------------------------------
(* Inputs: what the API may answer and what the user may type *)

TxtCat == <<"C","a","t">>
TxtADog == <<"a"," ","d","o","g">>
TxtDOG == <<"D","O","G">>
TxtOx == <<"O","x">>
TxtCatLower == <<"c","a","t">>
TxtDay2 == <<"1","9","7","0","-","0","1","-","0","2">>
TxtDay3 == <<"1","9","7","0","-","0","1","-","0","3">>
TxtNotADate == <<"s","o","o","n">>
TxtMonth13 == <<"1","9","7","0","-","1","3","-","0","1">>
TxtHttpFailure == <<"H","t","t","p"," ","f","a","i","l","u","r","e">>

\* raw API records: well-formed ones, and ones with fields missing
RawRecords ==
    { [id |-> Num(1), title |-> Str(TxtCat), content |-> Str(TxtADog),
       complexity |-> Num(2), view_count |-> Num(1500), created_at |-> Str(TxtDay2)],
      [id |-> Num(2), title |-> Str(TxtDOG), content |-> Str(TxtOx),
       complexity |-> Num(9), view_count |-> Undefined, created_at |-> Str(TxtNotADate)],
      [id |-> Num(3), title |-> Undefined, content |-> Str(TxtCatLower),
       complexity |-> Num(0), view_count |-> Null, created_at |-> Undefined],
      [id |-> Num(4), title |-> Str(TxtOx), content |-> Undefined,
       complexity |-> Num(5), view_count |-> Num(0), created_at |-> Str(TxtDay3)],
      [id |-> Num(0), title |-> Str(TxtCatLower), content |-> Str(<<>>),
       complexity |-> Num(11), view_count |-> Num(-3), created_at |-> Str(TxtMonth13)] }

RawLists == UNION { [1..n -> RawRecords] : n \in 0..MaxList }

SearchTerms ==
    { <<>>, <<" ">>, <<" ", "\t">>, TxtCatLower, <<" ","C","A","T"," ">>,
      <<"o">>, <<"z">> }

-----------------------------------------------------------------------------
(* The prompt library component *)

NoPrompt == [set |-> FALSE]
NoCall == [op |-> "none", arg |-> Undefined, now |-> 0, res |-> Return(Undefined)]
Did(op, res) == [op |-> op, arg |-> Undefined, now |-> 0, res |-> res]

\* a variant of MapPrompt that stores view_count without the || 0 default
MapPrompt_RawViews(p) ==
    [id |-> p.id,
     title |-> p.title,
     description |-> p.content,
     complexityLevel |-> p.complexity,
     complexity |-> getComplexityText(p.complexity).val,
     views |-> p.view_count,
     date |-> Str(toLocaleDateStringShort(NewDate(p.created_at)))]

\* a variant of MapPrompt with hidden state: the default of views is the
\* number of view models the component holds
MapPrompt_Counting(p) ==
    [id |-> p.id,
     title |-> p.title,
     description |-> p.content,
     complexityLevel |-> p.complexity,
     complexity |-> getComplexityText(p.complexity).val,
     views |-> OrElse(p.view_count, Num(Len(prompts))),
     date |-> Str(toLocaleDateStringShort(NewDate(p.created_at)))]

\* the mapper of loadPrompts' next callback, for one record
MapPrompt(p) ==
    [id |-> p.id,
     title |-> p.title,
     description |-> p.content,
     complexityLevel |-> p.complexity,
     complexity |-> getComplexityText(p.complexity).val,
     views |-> OrElse(p.view_count, Num(0)),
     date |-> Str(toLocaleDateStringShort(NewDate(p.created_at)))]

\* a variant of MapPrompts that yields the view models last record first
MapPrompts_Reversed(data) ==
    [i \in 1..Len(data) |-> MapPrompt(data[Len(data) + 1 - i])]

\* data.map(...) of loadPrompts' next callback
MapPrompts(data) == [i \in 1..Len(data) |-> MapPrompt(data[i])]

\* a variant of NormalizeTerm that forgets trim()
NormalizeTerm_NoTrim(txt) == toLowerCase(txt)

\* searchTerm.toLowerCase().trim()
NormalizeTerm(txt) == trim(toLowerCase(txt))

\* a variant of MatchPrompt that searches the title only
MatchPrompt_TitleOnly(p, term) ==
    IF ~IsText(p.title) THEN "throw"
    ELSE IF includes(toLowerCase(p.title.s), term) THEN "yes"
    ELSE "no"

\* the predicate of filterPrompts on one view model: "yes", "no", or "throw"
\* when toLowerCase is called on a title or description that is not a text
MatchPrompt(p, term) ==
    IF ~IsText(p.title) THEN "throw"
    ELSE IF includes(toLowerCase(p.title.s), term) THEN "yes"
    ELSE IF ~IsText(p.description) THEN "throw"
    ELSE IF includes(toLowerCase(p.description.s), term) THEN "yes"
    ELSE "no"

IsYes(p, term) == MatchPrompt(p, term) = "yes"

\* the completion of filterPrompts' body: the new filteredPrompts, or a throw
FilterResult(items, txt) ==
    LET term == NormalizeTerm(txt)
    IN  IF term = <<>> THEN [threw |-> FALSE, list |-> items]
        ELSE IF \E i \in 1..Len(items) : MatchPrompt(items[i], term) = "throw"
        THEN [threw |-> TRUE, list |-> <<>>]
        ELSE [threw |-> FALSE, list |-> SelectSeq(items, LAMBDA p : IsYes(p, term))]

listVars == <<prompts, filteredPrompts, searchTerm, listReq, listData>>
detailVars == <<prompt, routeId, error, isLoading, detailReq>>
addVars == <<promptForm, posts>>
loginVars == <<loginForm, Login_isLoading, Login_error, loginInit, loginReqs, timers>>
sessionVars == <<localStorage, addVars, loginVars, staleTimers>>
restVars == <<navTarget, sessionVars>>

NoNav == [path |-> "none", id |-> Undefined]
NoItems == [authToken |-> Null, user |-> Null]
NoForm == [set |-> FALSE]

\* the fields of a newly constructed PromptLibraryComponent
ListConstructed ==
    /\ prompts' = <<>>
    /\ filteredPrompts' = <<>>
    /\ searchTerm' = <<>>
    /\ listReq' = "none"
    /\ listData' = <<>>

\* the fields of a newly constructed PromptDetailComponent
DetailConstructed ==
    /\ prompt' = NoPrompt
    /\ routeId' = Null
    /\ error' = <<>>
    /\ isLoading' = TRUE
    /\ detailReq' = "none"

\* the fields of a newly constructed AddPromptComponent
AddConstructed ==
    /\ promptForm' = NoForm
    /\ posts' = 0

\* the fields of a newly constructed LoginComponent: the constructor builds the form
LoginConstructed ==
    /\ loginForm' = [email |-> Str(<<>>), password |-> Str(<<>>)]
    /\ Login_isLoading' = FALSE
    /\ Login_error' = <<>>
    /\ loginInit' = FALSE
    /\ loginReqs' = 0
    /\ timers' = 0

Init ==
    /\ route = [path |-> "dashboard", id |-> Undefined]
    /\ prompts = <<>>
    /\ filteredPrompts = <<>>
    /\ searchTerm = <<>>
    /\ listReq = "none"
    /\ listData = <<>>
    /\ prompt = NoPrompt
    /\ routeId = Null
    /\ error = <<>>
    /\ isLoading = TRUE
    /\ detailReq = "none"
    /\ navTarget = NoNav
    /\ localStorage = NoItems
    /\ promptForm = NoForm
    /\ posts = 0
    /\ loginForm = [email |-> Str(<<>>), password |-> Str(<<>>)]
    /\ Login_isLoading = FALSE
    /\ Login_error = <<>>
    /\ loginInit = FALSE
    /\ loginReqs = 0
    /\ timers = 0
    /\ staleTimers = 0
    /\ call = NoCall

\* no navigation is under way
Settled == navTarget = NoNav

OnDashboard == route.path = "dashboard" /\ Settled
OnDetail == route.path = "detail" /\ Settled
OnAdd == route.path = "add" /\ Settled
OnLogin == route.path = "login" /\ Settled

\* PromptLibraryComponent.ngOnInit: loadPrompts issues the GET request
ngOnInit ==
    /\ OnDashboard
    /\ listReq = "none"
    /\ listReq' = "pending"
    /\ call' = Did("ngOnInit", Return(Undefined))
    /\ UNCHANGED <<route, prompts, filteredPrompts, searchTerm, listData, detailVars, restVars>>

\* loadPrompts, the next callback: the response maps to view models
loadPromptsNext(data) ==
    /\ OnDashboard
    /\ listReq = "pending"
    /\ prompts' = MapPrompts(data)
    /\ filteredPrompts' = prompts'
    /\ listReq' = "done"
    /\ listData' = data
    /\ call' = Did("loadPromptsNext", Return(Undefined))
    /\ UNCHANGED <<route, searchTerm, detailVars, restVars>>

\* loadPrompts, the error callback: console.error only
loadPromptsError ==
    /\ OnDashboard
    /\ listReq = "pending"
    /\ listReq' = "failed"
    /\ call' = Did("loadPromptsError", Return(Undefined))
    /\ UNCHANGED <<route, prompts, filteredPrompts, searchTerm, listData, detailVars, restVars>>

\* the user edits the search box (ngModel writes searchTerm)
SetSearchTerm(txt) ==
    /\ OnDashboard
    /\ searchTerm' = txt
    /\ call' = Did("SetSearchTerm", Return(Undefined))
    /\ UNCHANGED <<route, prompts, filteredPrompts, listReq, listData, detailVars, restVars>>

\* a variant of filterPrompts that filters the source collection in place
filterPrompts_InPlace ==
    /\ OnDashboard
    /\ LET r == FilterResult(prompts, searchTerm)
       IN  /\ filteredPrompts' = IF r.threw THEN filteredPrompts ELSE r.list
           /\ prompts' = filteredPrompts'
           /\ call' = Did("filterPrompts", IF r.threw THEN Throw ELSE Return(Undefined))
    /\ UNCHANGED <<route, searchTerm, listReq, listData, detailVars, restVars>>

\* PromptLibraryComponent.filterPrompts: a throw leaves filteredPrompts as it was
filterPrompts ==
    /\ OnDashboard
    /\ LET r == FilterResult(prompts, searchTerm)
       IN  /\ filteredPrompts' = IF r.threw THEN filteredPrompts ELSE r.list
           /\ call' = Did("filterPrompts", IF r.threw THEN Throw ELSE Return(Undefined))
    /\ UNCHANGED <<route, prompts, searchTerm, listReq, listData, detailVars, restVars>>

\* the card template: formatViews(prompt.views) of a listed prompt
List_formatViews(i) ==
    /\ OnDashboard
    /\ i \in 1..Len(filteredPrompts)
    /\ call' = [op |-> "formatViews", arg |-> filteredPrompts[i].views, now |-> 0,
                res |-> formatViews(filteredPrompts[i].views)]
    /\ UNCHANGED <<route, listVars, detailVars, restVars>>

\* the card template: prompt.complexity | complexityToColor
List_transform(i) ==
    /\ OnDashboard
    /\ i \in 1..Len(filteredPrompts)
    /\ call' = [op |-> "transform", arg |-> filteredPrompts[i].complexity, now |-> 0,
                res |-> transform(filteredPrompts[i].complexity)]
    /\ UNCHANGED <<route, listVars, detailVars, restVars>>

\* PromptLibraryComponent.navigateToPromptDetail for the i-th card: the route
\* parameter is the id as text; the library component is destroyed
navigateToPromptDetail(i) ==
    /\ OnDashboard
    /\ i \in 1..Len(filteredPrompts)
    /\ LET promptId == filteredPrompts[i].id
       IN  IF ~Truthy(promptId)
           THEN /\ call' = Did("navigateToPromptDetail", Return(Undefined))
                /\ UNCHANGED <<route, listVars, detailVars, restVars>>
           ELSE /\ navTarget' = [path |-> "detail", id |-> Str(NumberToString(promptId.n))]
                /\ call' = Did("navigateToPromptDetail", Return(Undefined))
                /\ UNCHANGED <<route, listVars, detailVars, sessionVars>>

-----------------------------------------------------------------------------
(* The prompt detail component *)

\* PromptDetailComponent.ngOnInit
Detail_ngOnInit ==
    /\ OnDetail
    /\ detailReq = "none"
    /\ routeId' = route.id
    /\ IF Truthy(route.id)
       THEN /\ detailReq' = "pending"
            /\ UNCHANGED <<error, isLoading>>
       ELSE /\ error' = <<"N","o"," ","I","D"," ","f","o","u","n","d"," ",
                          "i","n"," ","r","o","u","t","e">>
            /\ isLoading' = FALSE
            /\ detailReq' = "skipped"
    /\ call' = Did("Detail_ngOnInit", Return(Undefined))
    /\ UNCHANGED <<route, listVars, prompt, restVars>>

\* the mapper of ngOnInit's next callback
Detail_MapPrompt(data) ==
    [set |-> TRUE,
     title |-> data.title,
     content |-> data.content,
     complexity |-> data.complexity,
     complexityText |-> Detail_getComplexityText(data.complexity).val,
     views |-> data.view_count,
     date |-> Str(toLocaleDateString(NewDate(data.created_at))),
     created_at |-> data.created_at]

Detail_next(data) ==
    /\ OnDetail
    /\ detailReq = "pending"
    /\ prompt' = Detail_MapPrompt(data)
    /\ isLoading' = FALSE
    /\ detailReq' = "responded"
    /\ call' = Did("Detail_next", Return(Undefined))
    /\ UNCHANGED <<route, listVars, routeId, error, restVars>>

\* a variant of the error callback that does not store the message
Detail_error_NoMessage(message) ==
    /\ OnDetail
    /\ detailReq = "pending"
    /\ isLoading' = FALSE
    /\ detailReq' = "failed"
    /\ call' = Did("Detail_error", Return(Undefined))
    /\ UNCHANGED <<route, listVars, routeId, prompt, error, restVars>>

\* PromptDetailComponent.ngOnInit, the error callback
Detail_error(message) ==
    /\ OnDetail
    /\ detailReq = "pending"
    /\ error' = message
    /\ isLoading' = FALSE
    /\ detailReq' = "failed"
    /\ call' = Did("Detail_error", Return(Undefined))
    /\ UNCHANGED <<route, listVars, routeId, prompt, restVars>>

Detail_complete ==
    /\ OnDetail
    /\ detailReq = "responded"
    /\ isLoading' = FALSE
    /\ detailReq' = "completed"
    /\ call' = Did("Detail_complete", Return(Undefined))
    /\ UNCHANGED <<route, listVars, routeId, prompt, error, restVars>>

\* the detail template: formatViews(prompt.views)
Detail_showViews ==
    /\ OnDetail
    /\ prompt.set
    /\ call' = [op |-> "Detail_formatViews", arg |-> prompt.views, now |-> 0,
                res |-> Detail_formatViews(prompt.views)]
    /\ UNCHANGED <<route, listVars, detailVars, restVars>>

\* PromptDetailComponent.goBack: '/' redirects to the dashboard
goBack ==
    /\ OnDetail
    /\ navTarget' = [path |-> "dashboard", id |-> Undefined]
    /\ call' = Did("goBack", Return(Undefined))
    /\ UNCHANGED <<route, listVars, detailVars, sessionVars>>

-----------------------------------------------------------------------------
(* The add-prompt form *)

\* the limits of the validators of promptForm
TitleMinLength == 3
DescriptionMinLength == 20
ComplexityMin == 1
ComplexityMax == 10
ComplexityDefault == 5

\* the upper limits the component documents for title and description
TitleMaxLength == 50
DescriptionMaxLength == 500

Repeat(c, n) == [i \in 1..n |-> c]

\* what the user may enter in the form
TitleInputs ==
    { Str(Repeat("t", n)) : n \in {0, TitleMinLength - 1, TitleMinLength, TitleMaxLength + 1} }
DescriptionInputs ==
    { Str(Repeat("d", n)) :
        n \in {0, DescriptionMinLength - 1, DescriptionMinLength, DescriptionMaxLength + 1} }
ComplexityInputs ==
    { Null, Num(ComplexityMin - 1), Num(ComplexityMin), Num(ComplexityMax),
      Num(ComplexityMax + 1) }

\* Angular's validators: TRUE when the control value passes.  All but
\* required pass an empty value.
IsEmptyInputValue(v) == v = Null \/ v = Undefined \/ (IsText(v) /\ Len(v.s) = 0)
Validators_required(v) == ~IsEmptyInputValue(v)
Validators_minLength(n, v) == IsEmptyInputValue(v) \/ ~IsText(v) \/ Len(v.s) >= n
Validators_min(n, v) == IsEmptyInputValue(v) \/ ~IsNum(v) \/ v.n >= n
Validators_max(n, v) == IsEmptyInputValue(v) \/ ~IsNum(v) \/ v.n <= n

\* promptForm.valid, with the validators of ngOnInit
PromptFormValid(form) ==
    /\ Validators_required(form.title)
    /\ Validators_minLength(TitleMinLength, form.title)
    /\ Validators_required(form.complexity)
    /\ Validators_min(ComplexityMin, form.complexity)
    /\ Validators_max(ComplexityMax, form.complexity)
    /\ Validators_required(form.description)
    /\ Validators_minLength(DescriptionMinLength, form.description)

\* PromptLibraryComponent.navigateToAddPrompt
navigateToAddPrompt ==
    /\ OnDashboard
    /\ navTarget' = [path |-> "add", id |-> Undefined]
    /\ call' = Did("navigateToAddPrompt", Return(Undefined))
    /\ UNCHANGED <<route, listVars, detailVars, sessionVars>>

\* AddPromptComponent.ngOnInit builds the form
Add_ngOnInit ==
    /\ OnAdd
    /\ promptForm = NoForm
    /\ promptForm' = [set |-> TRUE, title |-> Str(<<>>),
                      complexity |-> Num(ComplexityDefault), description |-> Str(<<>>)]
    /\ call' = Did("Add_ngOnInit", Return(Undefined))
    /\ UNCHANGED <<route, navTarget, listVars, detailVars, localStorage, posts, loginVars,
                   staleTimers>>

\* the user edits a control of the form
Add_SetControl(name, v) ==
    /\ OnAdd
    /\ promptForm # NoForm
    /\ promptForm' = [promptForm EXCEPT ![name] = v]
    /\ call' = Did("Add_SetControl", Return(Undefined))
    /\ UNCHANGED <<route, navTarget, listVars, detailVars, localStorage, posts, loginVars,
                   staleTimers>>

\* the body savePrompt posts
formData(form) ==
    [title |-> form.title, content |-> form.description, complexity |-> form.complexity]

NoBody == [title |-> Undefined, content |-> Undefined, complexity |-> Undefined]

\* AddPromptComponent.savePrompt: a valid form is posted
savePrompt ==
    /\ OnAdd
    /\ promptForm # NoForm
    /\ IF PromptFormValid(promptForm)
       THEN /\ posts < MaxPosts
            /\ posts' = posts + 1
            /\ call' = [op |-> "savePrompt", arg |-> formData(promptForm), now |-> 0,
                        res |-> Return(Undefined)]
       ELSE /\ posts' = posts
            /\ call' = [op |-> "savePrompt", arg |-> NoBody, now |-> 0,
                        res |-> Return(Undefined)]
    /\ UNCHANGED <<route, navTarget, listVars, detailVars, localStorage, promptForm,
                   loginVars, staleTimers>>

\* savePrompt, the next callback: '/' redirects to the dashboard
Add_postNext ==
    /\ OnAdd
    /\ posts > 0
    /\ posts' = posts - 1
    /\ navTarget' = [path |-> "dashboard", id |-> Undefined]
    /\ call' = Did("Add_postNext", Return(Undefined))
    /\ UNCHANGED <<route, listVars, detailVars, localStorage, promptForm, loginVars,
                   staleTimers>>

\* savePrompt, the error callback: console.error only
Add_postError ==
    /\ OnAdd
    /\ posts > 0
    /\ posts' = posts - 1
    /\ call' = Did("Add_postError", Return(Undefined))
    /\ UNCHANGED <<route, navTarget, listVars, detailVars, localStorage, promptForm,
                   loginVars, staleTimers>>

\* AddPromptComponent.goBack
Add_goBack ==
    /\ OnAdd
    /\ navTarget' = [path |-> "dashboard", id |-> Undefined]
    /\ call' = Did("Add_goBack", Return(Undefined))
    /\ UNCHANGED <<route, listVars, detailVars, sessionVars>>

-----------------------------------------------------------------------------
(* The login component, the navbar and logout *)

HARDCODED_EMAIL == <<"d","e","m","o","@","e","x","a","m","p","l","e",".","c","o","m">>
HARDCODED_PASSWORD == <<"d","e","m","o","E","x","a","m","p","l","e","1","2","3","!">>
HARDCODED_USER == "HARDCODED_USER"
PasswordMinLength == 6

TxtMockToken == <<"m","o","c","k">>
TxtApiToken == <<"a","p","i">>
TxtLoginFailed ==
    <<"L","o","g","i","n"," ","f","a","i","l","e","d",".">>
TxtBadCredentials == <<"b","a","d">>

\* what the user may enter in the login form
EmailInputs ==
    { Str(txt) : txt \in { <<>>, HARDCODED_EMAIL, <<"a","@","b">>, <<"d","e","m","o">> } }
PasswordInputs ==
    { Str(txt) : txt \in { <<>>, HARDCODED_PASSWORD, <<"d","e","m","o","1">>,
                           <<"s","e","c","r","e","t">> } }

\* what the login API may answer
LoginResponses ==
    { [token |-> Str(TxtApiToken), user |-> "apiUser"],
      [token |-> Undefined, user |-> "apiUser"] }
LoginErrors == { Str(TxtBadCredentials), Undefined }

\* JSON.stringify of a user object, as the text stored in localStorage
JSONStringify(u) == Str(<<"{", u, "}">>)

\* Validators.email: an empty value passes; otherwise the text has one @,
\* with a local part before it and a domain after it
Validators_email(v) ==
    \/ IsEmptyInputValue(v)
    \/ /\ IsText(v)
       /\ Cardinality({ i \in 1..Len(v.s) : v.s[i] = "@" }) = 1
       /\ v.s[1] # "@"
       /\ v.s[Len(v.s)] # "@"

\* loginForm.valid, with the validators of the constructor
LoginFormValid(form) ==
    /\ Validators_required(form.email)
    /\ Validators_email(form.email)
    /\ Validators_required(form.password)
    /\ Validators_minLength(PasswordMinLength, form.password)

\* a variant of checkHardcodedCredentials that accepts nothing
checkHardcodedCredentials_Never(email, password) == FALSE

\* LoginComponent.checkHardcodedCredentials
checkHardcodedCredentials(email, password) ==
    email = Str(HARDCODED_EMAIL) /\ password = Str(HARDCODED_PASSWORD)

DemoForm == [email |-> Str(HARDCODED_EMAIL), password |-> Str(HARDCODED_PASSWORD)]

\* LoginComponent.ngOnInit: a stored token sends to the dashboard; the form
\* is filled with the demo credentials
Login_ngOnInit ==
    /\ OnLogin
    /\ ~loginInit
    /\ loginInit' = TRUE
    /\ navTarget' = IF Truthy(localStorage.authToken)
                    THEN [path |-> "dashboard", id |-> Undefined]
                    ELSE navTarget
    /\ loginForm' = DemoForm
    /\ call' = Did("Login_ngOnInit", Return(Undefined))
    /\ UNCHANGED <<route, listVars, detailVars, localStorage, addVars, Login_isLoading,
                   Login_error, loginReqs, timers, staleTimers>>

\* the user edits a control of the login form
Login_SetControl(name, v) ==
    /\ OnLogin
    /\ loginInit
    /\ loginForm' = [loginForm EXCEPT ![name] = v]
    /\ call' = Did("Login_SetControl", Return(Undefined))
    /\ UNCHANGED <<route, navTarget, listVars, detailVars, localStorage, addVars,
                   Login_isLoading, Login_error, loginInit, loginReqs, timers, staleTimers>>

\* the body of onSubmit for the form values it reads: handleSuccessfulLogin
\* sets a timer, attemptApiLogin posts the credentials, and an invalid form is
\* only marked as touched
Login_submit(form) ==
    IF LoginFormValid(form)
    THEN /\ Login_isLoading' = TRUE
         /\ Login_error' = <<>>
         /\ IF checkHardcodedCredentials(form.email, form.password)
            THEN /\ timers + staleTimers < MaxTimers
                 /\ timers' = timers + 1
                 /\ UNCHANGED loginReqs
            ELSE /\ loginReqs < MaxPosts
                 /\ loginReqs' = loginReqs + 1
                 /\ UNCHANGED timers
    ELSE UNCHANGED <<Login_isLoading, Login_error, loginReqs, timers>>

\* LoginComponent.onSubmit
onSubmit ==
    /\ OnLogin
    /\ loginInit
    /\ Login_submit(loginForm)
    /\ call' = Did("onSubmit", Return(Undefined))
    /\ UNCHANGED <<route, navTarget, listVars, detailVars, localStorage, addVars, loginForm,
                   loginInit, staleTimers>>

\* LoginComponent.quickLogin: autoFillCredentials, then onSubmit
quickLogin ==
    /\ OnLogin
    /\ loginInit
    /\ loginForm' = DemoForm
    /\ Login_submit(DemoForm)
    /\ call' = Did("quickLogin", Return(Undefined))
    /\ UNCHANGED <<route, navTarget, listVars, detailVars, localStorage, addVars, loginInit,
                   staleTimers>>

\* the items handleSuccessfulLogin's timer callback stores
DemoItems == [authToken |-> Str(TxtMockToken), user |-> JSONStringify(HARDCODED_USER)]

\* handleSuccessfulLogin, the setTimeout callback of the displayed component
handleSuccessfulLogin_timeout ==
    /\ OnLogin
    /\ timers > 0
    /\ timers' = timers - 1
    /\ Login_isLoading' = FALSE
    /\ localStorage' = DemoItems
    /\ navTarget' = [path |-> "dashboard", id |-> Undefined]
    /\ call' = Did("handleSuccessfulLogin_timeout", Return(Undefined))
    /\ UNCHANGED <<route, listVars, detailVars, addVars, loginForm, Login_error, loginInit,
                   loginReqs, staleTimers>>

\* the same callback of a LoginComponent that is no longer displayed: its
\* isLoading is not a field of the displayed component
handleSuccessfulLogin_staleTimeout ==
    /\ Settled
    /\ staleTimers > 0
    /\ staleTimers' = staleTimers - 1
    /\ localStorage' = DemoItems
    /\ navTarget' = [path |-> "dashboard", id |-> Undefined]
    /\ call' = Did("handleSuccessfulLogin_staleTimeout", Return(Undefined))
    /\ UNCHANGED <<route, listVars, detailVars, addVars, loginVars>>

\* attemptApiLogin, the next callback
attemptApiLogin_next(response) ==
    /\ OnLogin
    /\ loginReqs > 0
    /\ loginReqs' = loginReqs - 1
    /\ Login_isLoading' = FALSE
    /\ IF Truthy(response.token)
       THEN /\ localStorage' = [authToken |-> response.token,
                                user |-> JSONStringify(response.user)]
            /\ navTarget' = [path |-> "dashboard", id |-> Undefined]
       ELSE UNCHANGED <<localStorage, navTarget>>
    /\ call' = Did("attemptApiLogin_next", Return(Undefined))
    /\ UNCHANGED <<route, listVars, detailVars, addVars, loginForm, Login_error, loginInit,
                   timers, staleTimers>>

\* attemptApiLogin, the error callback: message is err.error?.message
attemptApiLogin_error(message) ==
    /\ OnLogin
    /\ loginReqs > 0
    /\ loginReqs' = loginReqs - 1
    /\ Login_isLoading' = FALSE
    /\ Login_error' = OrElse(message, Str(TxtLoginFailed)).s
    /\ call' = Did("attemptApiLogin_error", Return(Undefined))
    /\ UNCHANGED <<route, navTarget, listVars, detailVars, localStorage, addVars, loginForm,
                   loginInit, timers, staleTimers>>

\* localStorage.removeItem
removeItem(items, key) == [items EXCEPT ![key] = Null]

\* a variant of the logout body that leaves the user item in place
LogoutItems_KeepUser(items) == removeItem(items, "authToken")

\* the items after the two removeItem calls of logout
LogoutItems(items) == removeItem(removeItem(items, "authToken"), "user")

\* PromptLibraryComponent.logout
logout ==
    /\ OnDashboard
    /\ localStorage' = LogoutItems(localStorage)
    /\ navTarget' = [path |-> "login", id |-> Undefined]
    /\ call' = Did("logout", Return(Undefined))
    /\ UNCHANGED <<route, listVars, detailVars, addVars, loginVars, staleTimers>>

\* NavbarComponent.logout, from whatever page shows the navbar
Navbar_logout ==
    /\ Settled
    /\ localStorage' = LogoutItems(localStorage)
    /\ navTarget' = [path |-> "login", id |-> Undefined]
    /\ call' = Did("Navbar_logout", Return(Undefined))
    /\ UNCHANGED <<route, listVars, detailVars, addVars, loginVars, staleTimers>>

-----------------------------------------------------------------------------
(* The router *)

\* the router activates the target of router.navigate: a navigation to the
\* current URL is ignored, any other one replaces the displayed component
RouterActivate ==
    /\ navTarget # NoNav
    /\ navTarget' = NoNav
    /\ IF navTarget = route
       THEN UNCHANGED <<route, listVars, detailVars, addVars, loginVars, staleTimers>>
       ELSE /\ route' = navTarget
            /\ ListConstructed
            /\ DetailConstructed
            /\ AddConstructed
            /\ LoginConstructed
            /\ staleTimers' = staleTimers + timers
    /\ call' = Did("RouterActivate", Return(Undefined))
    /\ UNCHANGED localStorage

Next ==
    \/ ngOnInit
    \/ \E data \in RawLists : loadPromptsNext(data)
    \/ loadPromptsError
    \/ \E txt \in SearchTerms : SetSearchTerm(txt)
    \/ filterPrompts
    \/ \E i \in 1..MaxList : List_formatViews(i)
    \/ \E i \in 1..MaxList : List_transform(i)
    \/ \E i \in 1..MaxList : navigateToPromptDetail(i)
    \/ Detail_ngOnInit
    \/ \E data \in RawRecords : Detail_next(data)
    \/ Detail_error(TxtHttpFailure)
    \/ Detail_complete
    \/ Detail_showViews
    \/ goBack
    \/ navigateToAddPrompt
    \/ Add_ngOnInit
    \/ \E v \in TitleInputs : Add_SetControl("title", v)
    \/ \E v \in DescriptionInputs : Add_SetControl("description", v)
    \/ \E v \in ComplexityInputs : Add_SetControl("complexity", v)
    \/ savePrompt
    \/ Add_postNext
    \/ Add_postError
    \/ Add_goBack
    \/ Login_ngOnInit
    \/ \E v \in EmailInputs : Login_SetControl("email", v)
    \/ \E v \in PasswordInputs : Login_SetControl("password", v)
    \/ onSubmit
    \/ quickLogin
    \/ handleSuccessfulLogin_timeout
    \/ handleSuccessfulLogin_staleTimeout
    \/ \E response \in LoginResponses : attemptApiLogin_next(response)
    \/ \E message \in LoginErrors : attemptApiLogin_error(message)
    \/ logout
    \/ Navbar_logout
    \/ RouterActivate

Spec == Init /\ [][Next]_vars

-----------------------------------------------------------------------------
(* Direct calls of the presentation functions, on inputs of every kind *)

Levels == { Num(k) : k \in (-MaxNegLevel)..MaxLevel } \cup {Undefined, Null}

LabelInputs ==
    { Str(txt) : txt \in
        { TxtSimple, TxtSimpleLower, <<"S","I","M","P","L","E">>, <<"s","I","m","P","l","E">>,
          TxtModerate, TxtModerateLower, <<"M","O","D","E","R","A","T","E">>,
          TxtComplex, TxtComplexLower, <<"C","O","M","P","L","E","X">>,
          TxtUnknown, <<>>, <<"s","i","m","p","l">>, <<"s","i","m","p","l","e","x">>,
          <<" ","s","i","m","p","l","e">>, <<"5">> } }
    \cup {Undefined, Null}

BigViews == {1500, 9949, 9950, 9999, 10000, 12000, 99949, 99950, 999949, 999950, 1234567}

ViewInputs ==
    { Num(k) : k \in ((-MaxNegViews)..MaxViews) \cup BigViews } \cup {Undefined, Null}

DateInputs ==
    { Str(txt) : txt \in { TxtDay2, TxtDay3, <<"1","9","7","0","-","0","1","-","0","1">>,
                           TxtNotADate, TxtMonth13, <<>> } }
    \cup {Undefined, Null}

\* clock readings: the start, the first millisecond and the last millisecond of a day
Nows == { d * MsPerDay + o : d \in 0..MaxDay, o \in {0, 1, MsPerDay - 1} }

Called(op, arg, now, res) == [op |-> op, arg |-> arg, now |-> now, res |-> res]

\* an argument (and a clock reading) handed to a presentation function
Input(arg, now) == Called("input", arg, now, Return(Undefined))

\* what paramMap.get('id') may return to a PromptDetailComponent: null when
\* the activated route carries no id
RouteIds == { Null, Str(<<"1">>), Str(<<"4">>) }

InitPure ==
    /\ prompts = <<>>
    /\ filteredPrompts = <<>>
    /\ searchTerm = <<>>
    /\ listReq = "none"
    /\ prompt = NoPrompt
    /\ routeId = Null
    /\ error = <<>>
    /\ isLoading = TRUE
    /\ detailReq = "none"
    /\ navTarget = NoNav
    /\ localStorage = NoItems
    /\ promptForm = NoForm
    /\ posts = 0
    /\ loginForm = [email |-> Str(<<>>), password |-> Str(<<>>)]
    /\ Login_isLoading = FALSE
    /\ Login_error = <<>>
    /\ loginInit = FALSE
    /\ loginReqs = 0
    /\ timers = 0
    /\ staleTimers = 0
    /\ \/ /\ route = [path |-> "dashboard", id |-> Undefined]
          /\ listData = <<>>
          /\ call \in { Input(arg, 0) : arg \in Levels \cup LabelInputs \cup ViewInputs }
                      \cup { Input(arg, now) : arg \in DateInputs, now \in Nows }
       \/ /\ route = [path |-> "dashboard", id |-> Undefined]
          /\ listData \in { <<p>> : p \in RawRecords }
          /\ call = NoCall
       \/ /\ route \in { [path |-> "detail", id |-> id] : id \in RouteIds }
          /\ listData = <<>>
          /\ call = NoCall

Call_getComplexityText ==
    /\ call.op = "input" /\ call.arg \in Levels
    /\ call' = Called("getComplexityText", call.arg, call.now, getComplexityText(call.arg))
    /\ UNCHANGED <<route, listVars, detailVars, restVars>>

Call_Detail_getComplexityText ==
    /\ call.op = "input" /\ call.arg \in Levels
    /\ call' = Called("Detail_getComplexityText", call.arg, call.now,
                      Detail_getComplexityText(call.arg))
    /\ UNCHANGED <<route, listVars, detailVars, restVars>>

Call_getComplexityClass ==
    /\ call.op = "input" /\ call.arg \in Levels
    /\ call' = Called("getComplexityClass", call.arg, call.now, getComplexityClass(call.arg))
    /\ UNCHANGED <<route, listVars, detailVars, restVars>>

Call_Add_getComplexityClass ==
    /\ call.op = "input" /\ call.arg \in Levels
    /\ call' = Called("Add_getComplexityClass", call.arg, call.now,
                      Add_getComplexityClass(call.arg))
    /\ UNCHANGED <<route, listVars, detailVars, restVars>>

Call_Add_getComplexityText ==
    /\ call.op = "input" /\ call.arg \in Levels
    /\ call' = Called("Add_getComplexityText", call.arg, call.now,
                      Add_getComplexityText(call.arg))
    /\ UNCHANGED <<route, listVars, detailVars, restVars>>

\* the mapper of loadPrompts applied once more to the raw record in listData;
\* prompts collects the view models
Call_MapPrompt ==
    /\ listData # <<>>
    /\ Len(prompts) < MaxList
    /\ prompts' = Append(prompts, MapPrompt(listData[1]))
    /\ call' = Called("MapPrompt", Undefined, 0, Return(Undefined))
    /\ UNCHANGED <<route, filteredPrompts, searchTerm, listReq, listData, detailVars, restVars>>

Call_transform ==
    /\ call.op = "input" /\ call.arg \in LabelInputs
    /\ call' = Called("transform", call.arg, call.now, transform(call.arg))
    /\ UNCHANGED <<route, listVars, detailVars, restVars>>

Call_formatViews ==
    /\ call.op = "input" /\ call.arg \in ViewInputs
    /\ call' = Called("formatViews", call.arg, call.now, formatViews(call.arg))
    /\ UNCHANGED <<route, listVars, detailVars, restVars>>

Call_Detail_formatViews ==
    /\ call.op = "input" /\ call.arg \in ViewInputs
    /\ call' = Called("Detail_formatViews", call.arg, call.now, Detail_formatViews(call.arg))
    /\ UNCHANGED <<route, listVars, detailVars, restVars>>

Call_getDaysAgo ==
    /\ call.op = "input" /\ call.arg \in DateInputs
    /\ call' = Called("getDaysAgo", call.arg, call.now, getDaysAgo(call.arg, call.now))
    /\ UNCHANGED <<route, listVars, detailVars, restVars>>

NextPure ==
    \/ Call_getComplexityText
    \/ Call_Detail_getComplexityText
    \/ Call_getComplexityClass
    \/ Call_Add_getComplexityClass
    \/ Call_Add_getComplexityText
    \/ Call_MapPrompt
    \/ Detail_ngOnInit
    \/ \E data \in RawRecords : Detail_next(data)
    \/ Detail_error(TxtHttpFailure)
    \/ Detail_complete
    \/ Call_transform
    \/ Call_formatViews
    \/ Call_Detail_formatViews
    \/ Call_getDaysAgo

SpecPure == InitPure /\ [][NextPure]_vars

-----------------------------------------------------------------------------
(* Properties *)

Abs(k) == IF k < 0 THEN -k ELSE k

AllDigits(txt) == txt # <<>> /\ \A i \in 1..Len(txt) : IsDigit(txt[i])

\* the number a text of digits denotes
RECURSIVE TextToNat(_)
TextToNat(txt) ==
    IF txt = <<>> THEN 0
    ELSE 10 * TextToNat(SubSeq(txt, 1, Len(txt) - 1)) + DigitVal(txt[Len(txt)])

\* a and b differ at most in the case of their letters
CaseVariant(a, b) ==
    /\ Len(a) = Len(b)
    /\ \A i \in 1..Len(a) :
          \/ a[i] = b[i]
          \/ \E j \in 1..Len(UpperChars) : {a[i], b[i]} = {UpperChars[j], LowerChars[j]}

\* C1: the list view's getComplexityText gives "Simple" for levels 1..3,
\* "Moderate" for 4..7, "Complex" for 8..10 and "Unknown" for every other
\* integer level, 0 and the negatives included.
C1_ListLabelBuckets ==
    (call.op = "getComplexityText" /\ IsNum(call.arg)) =>
        /\ ~call.res.threw
        /\ call.res.val =
             Str(IF call.arg.n \in 1..3 THEN TxtSimple
                 ELSE IF call.arg.n \in 4..7 THEN TxtModerate
                 ELSE IF call.arg.n \in 8..10 THEN TxtComplex
                 ELSE TxtUnknown)

\* C1 witness: getComplexityText was called on level 0 and answered "Unknown"
C1_Witness ==
    /\ call.op = "getComplexityText"
    /\ call.arg = Num(0)
    /\ call.res.val = Str(TxtUnknown)

\* the color the claim gives a label text
ExpectedColor(txt) ==
    IF CaseVariant(txt, TxtSimpleLower) THEN ColorSimple
    ELSE IF CaseVariant(txt, TxtModerateLower) THEN ColorModerate
    ELSE IF CaseVariant(txt, TxtComplexLower) THEN ColorComplex
    ELSE ColorDefault

\* C2: on every text the pipe's transform returns #D0EBFF for "simple",
\* #FFF7C3 for "moderate", #FFE5E5 for "complex" in any letter case and #f5f5f5
\* for every other text, the empty text included; texts that differ only in
\* letter case get the same color.
C2_ColorLookup ==
    (call.op = "transform" /\ IsText(call.arg)) =>
        /\ call.res = Return(Str(ExpectedColor(call.arg.s)))
        /\ \A other \in LabelInputs :
              (IsText(other) /\ CaseVariant(other.s, call.arg.s))
                  => transform(other) = call.res

\* C2 witness: transform was called on "SIMPLE" and answered #D0EBFF
C2_Witness ==
    /\ call.op = "transform"
    /\ call.arg = Str(<<"S","I","M","P","L","E">>)
    /\ call.res = Return(Str(ColorSimple))

\* the tenths a text "<digits>.<digit>k" denotes (12.0k is 120), -1 for any
\* other text
ParsedTenths(txt) ==
    IF /\ Len(txt) >= 4
       /\ txt[Len(txt)] = "k"
       /\ IsDigit(txt[Len(txt) - 1])
       /\ txt[Len(txt) - 2] = "."
       /\ AllDigits(SubSeq(txt, 1, Len(txt) - 3))
       /\ (Len(txt) = 4 \/ txt[1] # "0")
    THEN 10 * TextToNat(SubSeq(txt, 1, Len(txt) - 3)) + DigitVal(txt[Len(txt) - 1])
    ELSE -1

\* the number a plain decimal text denotes (no sign, no leading zero), -1 for
\* any other text
ParsedPlain(txt) ==
    IF AllDigits(txt) /\ (Len(txt) = 1 \/ txt[1] # "0") THEN TextToNat(txt) ELSE -1

IsFormatViewsCall == call.op \in {"formatViews", "Detail_formatViews"}

\* v/100 rounded to an integer, ties up and ties to even
HalfUp(v) == (v + 50) \div 100
HalfEven(v) ==
    IF v % 100 = 50 THEN (IF (v \div 100) % 2 = 0 THEN v \div 100 ELSE v \div 100 + 1)
    ELSE HalfUp(v)

\* the examples the specification gives
FormatViewsExamples ==
    /\ call.arg = Num(0) => call.res.val.s = <<"0">>
    /\ call.arg = Num(999) => call.res.val.s = <<"9","9","9">>
    /\ call.arg = Num(1000) => call.res.val.s = <<"1",".","0","k">>
    /\ call.arg = Num(1500) => call.res.val.s = <<"1",".","5","k">>
    /\ call.arg = Num(12000) => call.res.val.s = <<"1","2",".","0","k">>

\* C3 as amended: for every integer v >= 1000 formatViews(v) is a text
\* "<digits>.<digit>k" whose value is a one-decimal number nearest to v/1000
\* (at an exact tie, v mod 100 = 50, either neighbour: 1150 gives "1.1k",
\* 1250 gives "1.3k"); for 0 <= v < 1000 it is the plain decimal text of v;
\* the list view and the detail view give the same text.
C3_FormatViews ==
    (IsFormatViewsCall /\ IsNum(call.arg) /\ call.arg.n >= 0) =>
        /\ ~call.res.threw
        /\ IsText(call.res.val)
        /\ IF call.arg.n >= 1000
           THEN /\ ParsedTenths(call.res.val.s) >= 0
                /\ Abs(100 * ParsedTenths(call.res.val.s) - call.arg.n) <= 50
           ELSE ParsedPlain(call.res.val.s) = call.arg.n
        /\ FormatViewsExamples
        /\ call.arg = Num(1150) => call.res.val.s = <<"1",".","1","k">>
        /\ call.arg = Num(1250) => call.res.val.s = <<"1",".","3","k">>
        /\ call.res = (IF call.op = "formatViews" THEN Detail_formatViews(call.arg)
                       ELSE formatViews(call.arg))

\* C3 witness: formatViews was called on 1500 and answered "1.5k"
C3_Witness ==
    /\ call.op = "formatViews"
    /\ call.arg = Num(1500)
    /\ call.res = Return(Str(<<"1",".","5","k">>))

\* C3 as stated: for every integer v >= 1000 formatViews(v) is v/1000 rounded
\* to one decimal place (ties up, or ties to even) followed by "k", and for
\* 0 <= v < 1000 the plain decimal text of v, the same in both views.
C3_RoundedOneDecimal ==
    (IsFormatViewsCall /\ IsNum(call.arg) /\ call.arg.n >= 0) =>
        /\ ~call.res.threw
        /\ IF call.arg.n >= 1000
           THEN ParsedTenths(call.res.val.s) \in {HalfUp(call.arg.n), HalfEven(call.arg.n)}
           ELSE ParsedPlain(call.res.val.s) = call.arg.n
        /\ FormatViewsExamples
        /\ call.res = (IF call.op = "formatViews" THEN Detail_formatViews(call.arg)
                       ELSE formatViews(call.arg))

\* view_count is absent or falsy
IsFalsyCount(v) == v.t \in {"undefined", "null"} \/ v = Num(0)

\* C4: after a list load, a record whose view_count is absent or falsy has
\* views = 0 and the formatted text "0"; a record with a truthy view_count has
\* views equal to it.
C4_ViewsDefault ==
    listReq = "done" =>
        /\ Len(prompts) = Len(listData)
        /\ \A i \in 1..Len(listData) :
              IF IsFalsyCount(listData[i].view_count)
              THEN /\ prompts[i].views = Num(0)
                   /\ formatViews(prompts[i].views) = Return(Str(<<"0">>))
              ELSE prompts[i].views = listData[i].view_count

\* C4 witness: a loaded list holds a record without view_count, mapped to 0
\* views, and its card's view text was formatted as "0"
C4_Witness ==
    /\ listReq = "done"
    /\ call.op = "formatViews"
    /\ call.res = Return(Str(<<"0">>))
    /\ \E i \in 1..Len(listData) :
          /\ listData[i].view_count = Undefined
          /\ prompts[i].views = Num(0)
          /\ call.arg = prompts[i].views

\* the prompts of the library are typed as the Prompt interface declares
\* them: title and description are texts
PromptsTyped ==
    \A i \in 1..Len(prompts) : IsText(prompts[i].title) /\ IsText(prompts[i].description)

\* the search term as the specification normalizes it: trimmed, then lowercased
ClaimTerm == toLowerCase(trim(searchTerm))

\* the indices of the prompts whose lowercased title or description contains
\* the normalized term
Matching ==
    { i \in 1..Len(prompts) :
        \/ includes(toLowerCase(prompts[i].title.s), ClaimTerm)
        \/ includes(toLowerCase(prompts[i].description.s), ClaimTerm) }

\* the k-th smallest index of Matching
KthMatching(k) == CHOOSE i \in Matching : Cardinality({ j \in Matching : j < i }) = k - 1

\* C5: with a search term that is non-empty after trimming and lowercasing,
\* filterPrompts yields exactly the prompts whose lowercased title or
\* description contains the normalized term, in their original order, none
\* dropped, added, reordered or duplicated.
C5_FilterMatches ==
    (call.op = "filterPrompts" /\ PromptsTyped /\ ClaimTerm # <<>>) =>
        /\ ~call.res.threw
        /\ Len(filteredPrompts) = Cardinality(Matching)
        /\ \A k \in 1..Len(filteredPrompts) : filteredPrompts[k] = prompts[KthMatching(k)]

\* C5 witness: filterPrompts ran on two typed prompts of which the first
\* matches by its description only and the second does not match
C5_Witness ==
    /\ call.op = "filterPrompts"
    /\ PromptsTyped
    /\ ClaimTerm # <<>>
    /\ Len(prompts) = 2
    /\ Matching = {1}
    /\ ~includes(toLowerCase(prompts[1].title.s), ClaimTerm)
    /\ filteredPrompts = <<prompts[1]>>

\* C6: with a search term that is empty or only whitespace, filterPrompts
\* yields the full prompt list: the same elements, order and length.
C6_BlankTermKeepsAll ==
    (call.op = "filterPrompts" /\ \A i \in 1..Len(searchTerm) : searchTerm[i] \in WhiteSpace) =>
        /\ ~call.res.threw
        /\ Len(filteredPrompts) = Len(prompts)
        /\ \A i \in 1..Len(prompts) : filteredPrompts[i] = prompts[i]

\* C6 witness: filterPrompts ran with a whitespace-only term on two prompts
C6_Witness ==
    /\ call.op = "filterPrompts"
    /\ searchTerm = <<" ", "\t">>
    /\ Len(prompts) = 2
    /\ filteredPrompts = prompts

\* C7: no presentation function raises, whatever its input: color lookup on a
\* missing label, view formatting on a missing view count and filtering over
\* a view model without title or content all return a value.
C7_NeverRaises == ~call.res.threw

\* C8: view formatting treats a negative or missing view count as 0: the
\* formatted text is "0", in the list view and in the detail view.
C8_NegativeOrMissingIsZero ==
    (/\ IsFormatViewsCall
     /\ \/ call.arg.t \in {"undefined", "null"}
        \/ (IsNum(call.arg) /\ call.arg.n < 0)) =>
        call.res = Return(Str(<<"0">>))

\* C9: getDaysAgo never returns a negative number, whatever the timestamp
\* and the current time.
C9_DaysAgoNeverNegative ==
    call.op = "getDaysAgo" => (~call.res.threw /\ IsNum(call.res.val) /\ call.res.val.n >= 0)

\* the time of the timestamps the model draws: day d of January 1970 starts
\* d - 1 days after the epoch; any other text does not parse
KnownDates ==
    { <<<<"1","9","7","0","-","0","1","-","0","1">>, 0>>,
      <<TxtDay2, 1>>,
      <<TxtDay3, 2>> }

IsKnownDate(v) == IsText(v) /\ \E kd \in KnownDates : kd[1] = v.s
KnownDay(v) == (CHOOSE kd \in KnownDates : kd[1] = v.s)[2]

\* C10: getDaysAgo returns 0 for an empty or unparseable timestamp, and
\* otherwise floor((now - parsedTime) / one day): the integer r with
\* r days <= now - parsedTime < r + 1 days.
C10_DaysAgoFloor ==
    call.op = "getDaysAgo" =>
        /\ ~call.res.threw
        /\ IsNum(call.res.val)
        /\ IF IsKnownDate(call.arg)
           THEN LET diff == call.now - KnownDay(call.arg) * MsPerDay
                    r == call.res.val.n
                IN  r * MsPerDay <= diff /\ diff < (r + 1) * MsPerDay
           ELSE call.res.val = Num(0)

\* C10 witness: getDaysAgo of the second day, one millisecond before the end
\* of the third day, is 1
C10_Witness ==
    /\ call.op = "getDaysAgo"
    /\ call.arg = Str(TxtDay2)
    /\ call.now = 3 * MsPerDay - 1
    /\ call.res = Return(Num(1))

\* C11: the style-class variant (getComplexityClass of the detail view and of
\* the add-prompt form) gives "simple" for every integer level below 4,
\* "moderate" for 4..7 and "complex" for every level above 7: levels below 1
\* are "simple", levels above 10 are "complex", and there is no Unknown bucket.
C11_StyleClassBuckets ==
    (call.op \in {"getComplexityClass", "Add_getComplexityClass"} /\ IsNum(call.arg)) =>
        /\ ~call.res.threw
        /\ call.res.val \in {Str(TxtSimpleLower), Str(TxtModerateLower), Str(TxtComplexLower)}
        /\ call.res.val = Str(TxtSimpleLower) <=> call.arg.n < 4
        /\ call.res.val = Str(TxtModerateLower) <=> call.arg.n \in 4..7
        /\ call.res.val = Str(TxtComplexLower) <=> call.arg.n > 7

\* C11 witness: the detail view's getComplexityClass was called on level 11
\* and answered "complex"
C11_Witness ==
    /\ call.op = "getComplexityClass"
    /\ call.arg = Num(11)
    /\ call.res = Return(Str(TxtComplexLower))

\* the label the specification gives to a complexity level
ClaimLabel(level) ==
    IF level \in 1..3 THEN TxtSimple
    ELSE IF level \in 4..7 THEN TxtModerate
    ELSE IF level \in 8..10 THEN TxtComplex
    ELSE TxtUnknown

\* C12: a list load of N raw records yields exactly N view models in the order
\* of the input, the i-th with the id and title of the i-th record verbatim,
\* its content as description, its complexity as complexityLevel and the
\* three-bucket-with-Unknown label of that complexity as complexity.
C12_LoadMapsInOrder ==
    call.op = "loadPromptsNext" =>
        /\ Len(prompts) = Len(listData)
        /\ \A i \in 1..Len(listData) :
              /\ prompts[i].id = listData[i].id
              /\ prompts[i].title = listData[i].title
              /\ prompts[i].description = listData[i].content
              /\ prompts[i].complexityLevel = listData[i].complexity
              /\ prompts[i].complexity = Str(ClaimLabel(listData[i].complexity.n))

\* C12 witness: a load of two different records has been mapped
C12_Witness ==
    /\ call.op = "loadPromptsNext"
    /\ Len(listData) = 2
    /\ listData[1].id # listData[2].id
    /\ prompts[1].id = listData[1].id

\* C13: filterPrompts never changes the source collection: after a filterPrompts
\* call the full prompt list is still what the last load produced (empty when
\* no load has completed), whatever the filtered list has become.
C13_FilterKeepsSource ==
    call.op = "filterPrompts" =>
        prompts = IF listReq = "done" THEN MapPrompts(listData) ELSE <<>>

\* C13 witness: a filterPrompts call has left fewer prompts displayed than loaded
C13_Witness ==
    /\ call.op = "filterPrompts"
    /\ listReq = "done"
    /\ Len(prompts) = 2
    /\ Len(filteredPrompts) < Len(prompts)
    /\ ~call.res.threw

WithinDocumentedLimits(body) ==
    /\ IsText(body.title)
    /\ Len(body.title.s) \in TitleMinLength..TitleMaxLength
    /\ IsText(body.content)
    /\ Len(body.content.s) \in DescriptionMinLength..DescriptionMaxLength
    /\ IsNum(body.complexity)
    /\ body.complexity.n \in ComplexityMin..ComplexityMax

\* C15: the add-prompt form sends a create request only for input within the
\* documented limits (title 3..50 characters, description 20..500 characters,
\* complexity 1..10): savePrompt on any other input posts nothing and starts
\* no navigation.
C15_OnlyDocumentedInputIsSent ==
    (call.op = "savePrompt" /\ ~WithinDocumentedLimits(formData(promptForm))) =>
        (call.arg = NoBody /\ navTarget = NoNav)

\* C16: logout ends the session: after logout() of the navbar or of the
\* prompt library, from any state, neither authToken nor user is in local
\* storage and the navigation target is /login.
C16_LogoutEndsSession ==
    call.op \in {"logout", "Navbar_logout"} =>
        /\ localStorage.authToken = Null
        /\ localStorage.user = Null
        /\ navTarget.path = "login"

\* C16 witness: the library's logout was called with a loaded list on display
\* and a login callback still outstanding
C16_Witness ==
    /\ call.op = "logout"
    /\ listReq = "done"
    /\ staleTimers > 0
    /\ localStorage = NoItems
    /\ navTarget.path = "login"

\* C17: the detail view is always in exactly one of three states, loading,
\* error and content: it starts loading; without a route id ngOnInit goes to
\* error and issues no request; once the request has succeeded or failed
\* isLoading is false and stays false; and whenever isLoading is false exactly
\* one of "prompt is set" and "error is non-empty" holds.
C17_DetailThreeStates ==
    route.path = "detail" =>
        /\ detailReq = "none" => (isLoading /\ ~prompt.set /\ error = <<>>)
        /\ (detailReq # "none" /\ ~Truthy(route.id)) =>
              (~isLoading /\ error # <<>> /\ detailReq = "skipped")
        /\ detailReq \in {"responded", "completed", "failed"} => ~isLoading
        /\ ~isLoading => (prompt.set <=> error = <<>>)

\* C17 witness: ngOnInit found no route id and went to the error state
C17_Witness ==
    /\ route.path = "detail"
    /\ call.op = "Detail_ngOnInit"
    /\ route.id = Null
    /\ ~isLoading
    /\ ~prompt.set
    /\ error # <<>>
    /\ detailReq = "skipped"

\* C18: onSubmit with a valid form holding the demo credentials issues no HTTP
\* login request and sets isLoading; the delayed success step sets isLoading
\* to false, writes authToken and user to local storage and navigates to
\* /dashboard; onSubmit with an invalid form changes neither isLoading, error
\* nor local storage.
C18_DemoLoginSteps ==
    [][ /\ (call'.op = "onSubmit" /\ LoginFormValid(loginForm)
              /\ loginForm = DemoForm) =>
            /\ loginReqs' = loginReqs
            /\ Login_isLoading'
        /\ (call'.op = "onSubmit" /\ ~LoginFormValid(loginForm)) =>
            UNCHANGED <<Login_isLoading, Login_error, localStorage>>
        /\ call'.op = "handleSuccessfulLogin_timeout" =>
            /\ ~Login_isLoading'
        /\ call'.op \in {"handleSuccessfulLogin_timeout",
                        "handleSuccessfulLogin_staleTimeout"} =>
            /\ localStorage'.authToken # Null
            /\ localStorage'.user # Null
            /\ navTarget'.path = "dashboard"
      ]_vars

\* C18 witness: the delayed success step of a demo login has run on the
\* displayed login component
C18_Witness ==
    /\ call.op = "handleSuccessfulLogin_timeout"
    /\ route.path = "login"
    /\ ~Login_isLoading
    /\ localStorage = DemoItems
    /\ navTarget.path = "dashboard"

\* C19: the displayed list reflects the current search term: after every
\* filterPrompts call and after every list load, filteredPrompts is exactly
\* the prompts matching searchTerm, in order (all prompts when the trimmed
\* term is empty).
C19_DisplayedMatchesTerm ==
    (call.op \in {"filterPrompts", "loadPromptsNext"} /\ PromptsTyped) =>
        IF ClaimTerm = <<>>
        THEN filteredPrompts = prompts
        ELSE /\ Len(filteredPrompts) = Cardinality(Matching)
             /\ \A k \in 1..Len(filteredPrompts) :
                   filteredPrompts[k] = prompts[KthMatching(k)]

=============================================================================
